---------------------------- MODULE Spec2Model ----------------------------
(***************************************************************************)
(* Store-synthesis pipeline of the store builder backend:                  *)
(*   app/services/store_generator.py  (orchestrator, assembler)            *)
(*   app/ai/content_generator.py      (six-request content fan-out)        *)
(*   app/ai/image_enhancer.py         (per-image enhancement chains)       *)
(*   app/api/stores.py                (store creation, background tasks)   *)
(*                                                                         *)
(* Eight specifications share the variables:                               *)
(*   Spec         one store driven through generate_complete_store         *)
(*   SpecPublish  one store: its run, then publish requests                *)
(*   SpecContent  one call of generate_complete_content, task by task      *)
(*   SpecEnhance  one call of enhance_product_images / enhance_single_image*)
(*   SpecPoll     one call of _poll_generation_completion, poll by poll    *)
(*   SpecPollLive SpecPoll with the event loop's fairness                  *)
(*   SpecAssemble one call of _build_store_structure                       *)
(*   SpecGenerate the generate requests of one user and their runs         *)
(*   SpecQuota    the generate requests of one user against their limit    *)
(***************************************************************************)
EXTENDS Integers, Sequences, FiniteSets, TLC

VARIABLES
    store,              \* the persisted Store row (committed state)
    pc,                 \* position of generate_complete_store
    scraped_product,    \* local of generate_complete_store
    generated_content,  \* local of generate_complete_store
    enhanced_images,    \* local of generate_complete_store
    exc,                \* exception caught by / raised from the run
    progress_log,       \* progress values committed by the current run
    db_fault,           \* a commit of the current run has failed
    run_env,            \* what the services answered in the current run
    store_at_begin,     \* the Store row as the current run found it
    store_data,         \* local of generate_complete_store (step 5)
    publish_tasks,      \* the publish requests made for the store
    stores,             \* the stores table, by id
    runs,               \* the background tasks generate_store has added
    users,              \* the users table row of user 1
    quota,              \* generate requests made, accepted and refused
    product_info,       \* argument of generate_complete_content
    tasks,              \* the six coroutines handed to asyncio.gather
    call,               \* the generate_complete_content call itself
    image_urls,         \* argument of enhance_product_images
    flags,              \* style / enhance_quality / remove_background
    chains,             \* one enhance_single_image coroutine per image
    batch,              \* the enhance_product_images call itself
    poll                \* one call of _poll_generation_completion

vars == <<store, pc, scraped_product, generated_content, enhanced_images,
          exc, progress_log, db_fault, run_env, store_at_begin, store_data,
          publish_tasks, stores, runs, users, quota,
          product_info, tasks, call, image_urls, flags, chains, batch, poll>>

pipelineVars == <<store, pc, scraped_product, generated_content,
                  enhanced_images, exc, progress_log, db_fault, run_env,
                  store_at_begin, store_data>>
publishVars  == <<publish_tasks>>
generateVars == <<stores, runs, users, quota>>
contentVars  == <<product_info, tasks, call>>
enhanceVars  == <<image_urls, flags, chains, batch, poll>>

---------------------------------------------------------------------------
(* Bounds of the model.                                                    *)

MaxFeatures      == 6   \* longest feature list of a product
MaxBatchImages   == 6   \* longest list handed to enhance_product_images
MaxRuns          == 4   \* generate requests whose runs are followed
MaxRequests      == 12  \* generate requests of one user

---------------------------------------------------------------------------
(* Values.                                                                 *)

None == "None"

Min(a, b) == IF a < b THEN a ELSE b

\* Python's s[:n] on a list.
Take(s, n) == SubSeq(s, 1, Min(n, Len(s)))

\* A Python string is a sequence of string atoms (its parts, in order).
\* s[:n] on a string keeps the string symbolic and records the cut.
Prefix(text, n) == <<"first", ToString(n), "characters of">> \o text

NoneStr == <<"None">>

Features(n) == [i \in 1..n |-> <<"feature ", ToString(i)>>]

\* A parsed JSON value, or a plain text, with its Python type.
Obj(fields) == [shape |-> "dict", v |-> fields]
Arr(items)  == [shape |-> "list", v |-> items]
Txt(text)   == [shape |-> "str",  v |-> text]

\* No exception.
NoExc == "no exception"

Returned(v) == [raised |-> FALSE, value |-> v, exc |-> NoExc]
Raised(e)   == [raised |-> TRUE, value |-> None, exc |-> e]

---------------------------------------------------------------------------
(* app/ai/content_generator.py                                             *)

\* What the chat-completion call of one request does.
\*   json_expected      text that parses to the shape the prompt asked for
\*   json_other_object  well-formed JSON object without the expected keys
\*   not_json           text that json.loads rejects
\*   transport_error    the client raises APIConnectionError
\*   timeout            the client raises APITimeoutError
ResponseKinds == {"json_expected", "json_other_object", "not_json",
                  "transport_error", "timeout"}

RequestNames == <<"product_copy", "seo", "homepage", "about", "faq", "keywords">>
NumRequests  == 6
Requests     == 1..NumRequests

ProductInfos ==
    { [title |-> "Widget", description |-> <<"A widget">>, features |-> Features(n),
       category |-> "Gadgets"] : n \in {0, MaxFeatures} }

ClientRaises(kind) == kind \in {"transport_error", "timeout"}

ClientException(kind) ==
    IF kind = "timeout" THEN "APITimeoutError" ELSE "APIConnectionError"

\* response.choices[0].message.content
ResponseText(name, kind) == <<"response text", name, kind>>

\* A JSON object that has none of the keys the call site reads.
OtherObject == Obj([note |-> <<"unexpected">>])

\* json.loads of a response of the expected shape, per call site.
ExpectedJson(name, info) ==
    CASE name = "product_copy" ->
            Obj([title       |-> <<"generated title for ", info.title>>,
                 description |-> <<"generated description for ", info.title>>,
                 benefits    |-> <<<<"generated benefit 1">>, <<"generated benefit 2">>>>])
      [] name = "seo" ->
            Obj([title       |-> <<"generated seo title for ", info.title>>,
                 description |-> <<"generated seo description for ", info.title>>])
      [] name = "homepage" ->
            Obj([headline          |-> <<"generated headline for ", info.title>>,
                 subheadline       |-> <<"generated subheadline">>,
                 cta_text          |-> <<"generated cta">>,
                 features_headline |-> <<"generated features headline">>])
      [] name = "faq" ->
            Arr(<<[question |-> <<"generated question">>, answer |-> <<"generated answer">>]>>)
      [] OTHER ->
            Arr(<<<<"generated keyword for ", info.title>>>>)

\* The except json.JSONDecodeError branch, per call site.
FallbackValue(name, info, text) ==
    CASE name = "product_copy" ->
            Obj([title       |-> <<info.title>>,
                 description |-> Prefix(text, 300),
                 benefits    |-> Take(info.features, 5)])
      [] name = "seo" ->
            Obj([title       |-> <<info.title, " - Best Quality Online Store">>,
                 description |-> <<"Shop ", info.title, " with fast shipping and great prices. Premium quality guaranteed.">>])
      [] name = "homepage" ->
            Obj([headline          |-> <<"Premium ", info.category, " Collection">>,
                 subheadline       |-> <<"Discover high-quality ", info.title, " with fast shipping worldwide">>,
                 cta_text          |-> <<"Shop Now">>,
                 features_headline |-> <<"Why Choose Us">>])
      [] name = "faq" ->
            Arr(<<[question |-> <<"What is your shipping policy?">>, answer |-> <<"shipping answer">>],
                  [question |-> <<"What is your return policy?">>,   answer |-> <<"return answer">>],
                  [question |-> <<"Is this product authentic?">>,    answer |-> <<"authentic answer">>]>>)
      [] OTHER ->
            Arr(<< <<"lower(", info.title, ")">>,
                   <<"best ", info.category>>,
                   <<"buy ", info.title>>,
                   <<info.category, " online">>,
                   <<"premium ", info.category>> >>)

\* One of generate_product_copy, generate_seo_content, generate_homepage_content,
\* generate_about_page, generate_faq_content, generate_keywords: the awaited
\* client call is outside the try, so a client exception leaves the coroutine.
RunRequest(name, info, kind) ==
    IF ClientRaises(kind) THEN Raised(ClientException(kind))
    ELSE IF name = "about" THEN Returned(Txt(ResponseText(name, kind)))
    ELSE IF kind = "not_json" THEN Returned(FallbackValue(name, info, ResponseText(name, kind)))
    ELSE IF kind = "json_expected" THEN Returned(ExpectedJson(name, info))
    ELSE Returned(OtherObject)

\* d[key] on a value that json.loads returned.
HasKey(d, key) == d.shape = "dict" /\ key \in DOMAIN d.v

\* The GeneratedContent(...) expression of generate_complete_content, given the
\* six results of gather: subscripting raises KeyError on a missing key, and
\* the pydantic model rejects a value that is not of the declared type.
BuildGeneratedContent(results) ==
    IF ~HasKey(results[1], "title") THEN Raised("'title'")
    ELSE IF ~HasKey(results[1], "description") THEN Raised("'description'")
    ELSE IF ~HasKey(results[2], "title") THEN Raised("'title'")
    ELSE IF ~HasKey(results[2], "description") THEN Raised("'description'")
    ELSE IF ~HasKey(results[1], "benefits") THEN Raised("'benefits'")
    ELSE IF \/ results[3].shape # "dict"
            \/ results[4].shape # "str"
            \/ results[5].shape # "list"
            \/ results[6].shape # "list"
         THEN Raised("validation error for GeneratedContent")
    ELSE Returned(
        [product_title       |-> results[1].v["title"],
         product_description |-> results[1].v["description"],
         seo_title           |-> results[2].v["title"],
         seo_description     |-> results[2].v["description"],
         homepage_hero       |-> results[3].v,
         about_page          |-> results[4].v,
         faq_items           |-> results[5].v,
         product_benefits    |-> results[1].v["benefits"],
         keywords            |-> results[6].v])

\* asyncio.gather(*tasks) without return_exceptions, seen as one step: the call
\* raises the exception of a coroutine that raised (whichever raised first),
\* otherwise the GeneratedContent is built from the six results.
GenerateCompleteContentOutcomes(info, resp) ==
    LET results == [i \in Requests |-> RunRequest(RequestNames[i], info, resp[i])]
        raisers == {i \in Requests : results[i].raised}
    IN  IF raisers # {}
        THEN {Raised(results[i].exc) : i \in raisers}
        ELSE {BuildGeneratedContent([i \in Requests |-> results[i].value])}

---------------------------------------------------------------------------
(* app/ai/image_enhancer.py                                                *)

max_attempts == 30
ImageCap     == 5

NoUrl == [kind |-> "none", id |-> 0, passes |-> <<>>]
SourceUrl(i) == [kind |-> "source", id |-> i, passes |-> <<>>]
SourceUrls(n) == [i \in 1..n |-> SourceUrl(i)]

\* The bytes behind a source URL, and the bytes a finished job produced from
\* an input image.
OriginalImage(url) == [src |-> url.id, passes |-> <<>>]
Transformed(image_data, pass) == [image_data EXCEPT !.passes = Append(@, pass)]

\* What the image service does with one job.
\*   complete         the job is COMPLETE with an output at the first poll
\*   complete_late    PENDING until the last allowed poll, then COMPLETE
\*   failed           one PENDING poll, then FAILED
\*   no_output        COMPLETE with an empty generated_images list
\*   never_done       PENDING at every poll
\*   transport_error  the POST that submits the job raises
JobScenarios == {"complete", "complete_late", "failed", "no_output",
                 "never_done", "transport_error"}

\* The status a job reports at poll number `attempt` (0-based).
JobStatus(scenario, attempt) ==
    CASE scenario = "complete"      -> "COMPLETE"
      [] scenario = "complete_late" -> IF attempt < max_attempts - 1 THEN "PENDING" ELSE "COMPLETE"
      [] scenario = "failed"        -> IF attempt < 1 THEN "PENDING" ELSE "FAILED"
      [] scenario = "no_output"     -> "COMPLETE_EMPTY"
      [] OTHER                      -> "PENDING"

\* _poll_generation_completion: the while loop from `attempt` on.
RECURSIVE PollFrom(_, _)
PollFrom(scenario, attempt) ==
    IF attempt < max_attempts
    THEN LET status == JobStatus(scenario, attempt)
         IN  IF status = "COMPLETE" THEN Returned("output url")
             ELSE IF status = "COMPLETE_EMPTY" THEN Raised("No images generated")
             ELSE IF status = "FAILED" THEN Raised("Image generation failed")
             ELSE PollFrom(scenario, attempt + 1)
    ELSE Raised("Generation timeout")

_poll_generation_completion(scenario) == PollFrom(scenario, 0)

\* Whether a pass's try block runs to its return.
PassSucceeds(scenario) ==
    /\ scenario # "transport_error"
    /\ ~_poll_generation_completion(scenario).raised

\* The three passes: each catches every exception and returns its input.
RunPass(image_data, pass, scenario) ==
    IF PassSucceeds(scenario) THEN Returned(Transformed(image_data, pass))
    ELSE Returned(image_data)

_enhance_image_quality(image_data, scenario)   == RunPass(image_data, "quality", scenario)
_remove_background(image_data, scenario)       == RunPass(image_data, "background", scenario)
_apply_style_enhancement(image_data, scenario) == RunPass(image_data, "style", scenario)

\* _upload_enhanced_image: a URL made of the md5 of the bytes.
_upload_enhanced_image(image_data) ==
    [kind |-> "enhanced", id |-> image_data.src, passes |-> image_data.passes]

EnhancedImage(original_url, enhanced_url, style, enhancement_type) ==
    [original_url |-> original_url, enhanced_url |-> enhanced_url,
     style |-> style, enhancement_type |-> enhancement_type]

\* The environment of one chain: the download of the original and one job
\* scenario per pass.
ChainEnvs ==
    [download : {"ok", "error"}, quality : JobScenarios,
     background : JobScenarios, style : JobScenarios]

\* A job submission of a chain: the pass and the image it was given.
Submission(pass, image_data) == [pass |-> pass, input |-> image_data]

\* A chain that hands every pass the downloaded original and keeps only the
\* style pass's output.
ChainRunFromOriginal(image_url, style, enhance_quality, remove_background, env) ==
    IF env.download = "error"
    THEN [result |-> Returned(EnhancedImage(image_url, image_url, style, "fallback_original")),
          submitted |-> <<>>]
    ELSE
      LET original_image == OriginalImage(image_url)
          sq == IF enhance_quality THEN <<Submission("quality", original_image)>> ELSE <<>>
          sb == IF remove_background THEN <<Submission("background", original_image)>> ELSE <<>>
          s  == _apply_style_enhancement(original_image, env.style)
      IN  [result |-> Returned(EnhancedImage(image_url, _upload_enhanced_image(s.value),
                                             style, "full_enhancement")),
           submitted |-> sq \o sb \o <<Submission("style", original_image)>>]

\* The body of enhance_single_image: its return value and the jobs it
\* submitted on the way.
ChainRun(image_url, style, enhance_quality, remove_background, env) ==
    IF env.download = "error"
    THEN [result |-> Returned(EnhancedImage(image_url, image_url, style, "fallback_original")),
          submitted |-> <<>>]
    ELSE
      LET original_image == OriginalImage(image_url)
          q  == IF enhance_quality
                THEN _enhance_image_quality(original_image, env.quality)
                ELSE Returned(original_image)
          sq == IF enhance_quality THEN <<Submission("quality", original_image)>> ELSE <<>>
          b  == IF q.raised THEN q
                ELSE IF remove_background
                THEN _remove_background(q.value, env.background)
                ELSE q
          sb == IF ~q.raised /\ remove_background
                THEN <<Submission("background", q.value)>> ELSE <<>>
          s  == IF b.raised THEN b
                ELSE _apply_style_enhancement(b.value, env.style)
          ss == IF ~b.raised THEN <<Submission("style", b.value)>> ELSE <<>>
      IN  [result |->
             IF s.raised
             THEN Returned(EnhancedImage(image_url, image_url, style, "fallback_original"))
             ELSE Returned(EnhancedImage(image_url, _upload_enhanced_image(s.value),
                                         style, "full_enhancement")),
           submitted |-> sq \o sb \o ss]

\* enhance_single_image without its except clause.
enhance_single_image_reraises(image_url, style, enhance_quality, remove_background, env) ==
    IF env.download = "error" THEN Raised("download failed")
    ELSE ChainRun(image_url, style, enhance_quality, remove_background, env).result

\* enhance_single_image tagging the upload of an image no pass changed as a
\* fallback.
enhance_single_image_tags_unchanged(image_url, style, enhance_quality, remove_background, env) ==
    LET r == ChainRun(image_url, style, enhance_quality, remove_background, env).result
    IN  IF r.value.enhanced_url.passes = <<>>
        THEN Returned([r.value EXCEPT !.enhancement_type = "fallback_original"])
        ELSE r

\* enhance_single_image never lets an exception out.
enhance_single_image(image_url, style, enhance_quality, remove_background, env) ==
    ChainRun(image_url, style, enhance_quality, remove_background, env).result

IsEnhancedImage(result) == ~result.raised

\* A collection loop that gives up at the first image that fell back.
CollectBeforeFirstFallback(results) ==
    LET bad == {i \in DOMAIN results :
                   results[i].raised \/ results[i].value.enhancement_type = "fallback_original"}
        n   == IF bad = {} THEN Len(results)
               ELSE (CHOOSE i \in bad : \A k \in bad : i <= k) - 1
    IN  [i \in 1..n |-> results[i].value]

\* A collection loop that also drops the results that fell back to the
\* original image.
RECURSIVE CollectFullOnly(_)
CollectFullOnly(results) ==
    IF results = <<>> THEN <<>>
    ELSE IF IsEnhancedImage(Head(results))
            /\ Head(results).value.enhancement_type # "fallback_original"
         THEN <<Head(results).value>> \o CollectFullOnly(Tail(results))
         ELSE CollectFullOnly(Tail(results))

\* The loop after gather(..., return_exceptions=True) of enhance_product_images.
RECURSIVE CollectEnhanced(_)
CollectEnhanced(results) ==
    IF results = <<>> THEN <<>>
    ELSE IF IsEnhancedImage(Head(results))
         THEN <<Head(results).value>> \o CollectEnhanced(Tail(results))
         ELSE CollectEnhanced(Tail(results))

\* image_urls[:5]
StartedUrls(urls) == Take(urls, ImageCap)

\* enhance_product_images seen as one step; envs gives each started chain's
\* environment.
enhance_product_images(urls, style, enhance_quality, envs) ==
    LET started == StartedUrls(urls)
        results == [i \in 1..Len(started) |->
                      enhance_single_image(started[i], style, enhance_quality,
                                           FALSE, envs[i])]
    IN  CollectEnhanced(results)

---------------------------------------------------------------------------
(* app/services/store_generator.py: the assembler                          *)

EmptyDict == [empty |-> TRUE]

\* dict.get(key, default)
Get(d, key, default) == IF key \in DOMAIN d THEN d[key] ELSE default

_generate_default_colors(theme_style) ==
    LET color_schemes ==
          [modern  |-> [primary |-> "#3b82f6", secondary |-> "#64748b", accent |-> "#f59e0b",
                        background |-> "#ffffff", text |-> "#1f2937"],
           luxury  |-> [primary |-> "#1f2937", secondary |-> "#d97706", accent |-> "#92400e",
                        background |-> "#f9fafb", text |-> "#111827"],
           minimal |-> [primary |-> "#000000", secondary |-> "#6b7280", accent |-> "#9ca3af",
                        background |-> "#ffffff", text |-> "#374151"]]
    IN  Get(color_schemes, theme_style, color_schemes["modern"])

\* A font lookup without the default for a style outside the table.
_get_theme_fonts_no_default(theme_style) ==
    LET font_configs ==
          [modern  |-> [primary |-> "Inter, sans-serif", secondary |-> "System UI, sans-serif"],
           luxury  |-> [primary |-> "Playfair Display, serif", secondary |-> "Source Sans Pro, sans-serif"],
           minimal |-> [primary |-> "Helvetica Neue, sans-serif", secondary |-> "Arial, sans-serif"]]
    IN  Get(font_configs, theme_style, EmptyDict)

_get_theme_fonts(theme_style) ==
    LET font_configs ==
          [modern  |-> [primary |-> "Inter, sans-serif", secondary |-> "System UI, sans-serif"],
           luxury  |-> [primary |-> "Playfair Display, serif", secondary |-> "Source Sans Pro, sans-serif"],
           minimal |-> [primary |-> "Helvetica Neue, sans-serif", secondary |-> "Arial, sans-serif"]]
    IN  Get(font_configs, theme_style, font_configs["modern"])

_get_theme_layout(theme_style) ==
    LET layout_configs ==
          [modern  |-> [header_style |-> "clean", product_layout |-> "grid", spacing |-> "comfortable"],
           luxury  |-> [header_style |-> "elegant", product_layout |-> "showcase", spacing |-> "spacious"],
           minimal |-> [header_style |-> "simple", product_layout |-> "minimal", spacing |-> "tight"]]
    IN  Get(layout_configs, theme_style, layout_configs["modern"])

\* _build_store_structure.
_build_store_structure(st, product, content, enhanced) ==
    [product |->
        [title |-> content.product_title,
         description |-> content.product_description,
         benefits |-> content.product_benefits,
         original_title |-> product.title,
         original_description |-> product.description,
         price |-> product.price,
         features |-> product.features,
         category |-> product.category,
         images |-> [original |-> product.images,
                     enhanced |-> [i \in 1..Len(enhanced) |-> enhanced[i].enhanced_url]]],
     homepage |->
        [hero |-> content.homepage_hero,
         featured_product |->
            [title |-> content.product_title,
             description |-> Prefix(content.product_description, 200) \o <<"...">>,
             image |-> IF enhanced # <<>> THEN enhanced[1].enhanced_url
                       ELSE IF product.images # <<>> THEN product.images[1]
                       ELSE NoUrl,
             cta_text |-> Get(content.homepage_hero, "cta_text", <<"Shop Now">>)],
         features_section |->
            [headline |-> Get(content.homepage_hero, "features_headline", <<"Why Choose Us">>),
             features |-> Take(content.product_benefits, 3)]],
     pages |->
        [about    |-> [title |-> "About Us", content |-> content.about_page],
         faq      |-> [title |-> "Frequently Asked Questions", items |-> content.faq_items],
         contact  |-> [title |-> "Contact Us", content |-> <<"contact page", st.store_name>>],
         shipping |-> [title |-> "Shipping & Returns", content |-> <<"shipping policy">>],
         privacy  |-> [title |-> "Privacy Policy", content |-> <<"privacy policy">>]],
     seo |->
        [title |-> content.seo_title,
         description |-> content.seo_description,
         keywords |-> content.keywords,
         og_image |-> IF enhanced # <<>> THEN enhanced[1].enhanced_url ELSE NoUrl],
     theme |->
        [style |-> st.theme_style,
         colors |-> IF st.brand_colors # EmptyDict THEN st.brand_colors
                    ELSE _generate_default_colors(st.theme_style),
         fonts |-> _get_theme_fonts(st.theme_style),
         layout |-> _get_theme_layout(st.theme_style)],
     generated_at |-> st.created_at,
     store_name |-> st.store_name,
     source_url |-> st.source_product_url]

---------------------------------------------------------------------------
(* app/api/stores.py and app/services/store_generator.py: one store        *)

ThemeStyles == {"modern", "luxury", "professional"}

CustomColors == [primary |-> "#112233", secondary |-> "#445566"]

\* The Store row generate_store adds and commits.
NewStore(theme_style, brand_colors) ==
    [store_name           |-> "My Store",
     source_product_url   |-> "https://shop.example/item",
     theme_style          |-> theme_style,
     brand_colors         |-> brand_colors,
     status               |-> "generating",
     generation_progress  |-> 0,
     error_message        |-> None,
     ai_generated_content |-> EmptyDict,
     enhanced_images      |-> <<>>,
     seo_title            |-> NoneStr,
     seo_description      |-> NoneStr,
     seo_keywords         |-> <<>>,
     shopify_store_url    |-> NoneStr,
     created_at           |-> "created_at"]

\* What scrape_product can return.
Product(n) ==
    [title |-> "Widget", description |-> <<"A widget">>, price |-> <<"9.99">>,
     features |-> Features(MaxFeatures), category |-> "Gadgets",
     images |-> SourceUrls(n)]

\* The pipeline runs scrape a product without images or one with two.
ScrapeResults == {Product(n) : n \in {0, 2}}

ScrapeError == "Failed to scrape generic site: navigation failed"
CommitError == "database error: commit failed"

\* ProductInfo(...) built from the scraped product.
ToProductInfo(product) ==
    [title |-> product.title, description |-> product.description,
     features |-> product.features, category |-> product.category]

\* The responses the text service gives in the pipeline runs: the same kind
\* for all six requests, or the expected shape for all but the about page.
PipelineResponses ==
    {[i \in Requests |-> k] : k \in ResponseKinds}
    \cup {[i \in Requests |-> IF i = 4 THEN "timeout" ELSE "json_expected"]}

\* The environments of an image's chain in the pipeline runs.
PipelineChainEnvs ==
    {[download |-> "ok", quality |-> q, background |-> q, style |-> q] :
        q \in {"complete", "failed"}}
    \cup {[download |-> "error", quality |-> "complete", background |-> "complete",
           style |-> "complete"]}

NoProduct == [title |-> "no product"]
NoContent == [product_title |-> <<"no content">>]

\* _update_store_progress, up to its commit.
_update_store_progress(st, progress, message) ==
    [st EXCEPT !.generation_progress = progress, !.error_message = message]

\* An except branch that also zeroes generation_progress.
MarkErrorResetsProgress(st, e) ==
    [st EXCEPT !.status = "error", !.error_message = e, !.generation_progress = 0]

\* An except branch that leaves error_message as the last checkpoint set it.
MarkErrorKeepsMessage(st, e) ==
    [st EXCEPT !.status = "error"]

\* The except branch of generate_complete_store, up to its commit.
MarkError(st, e) ==
    [st EXCEPT !.status = "error", !.error_message = e]

\* A step 6 that marks the store completed without storing the document.
StoreResultWithoutDocument(st, document, enhanced, content) ==
    [st EXCEPT !.status = "completed", !.generation_progress = 100,
               !.error_message = None]

\* A step 6 that keeps the enhanced images the row already has.
StoreResultKeepsImages(st, document, enhanced, content) ==
    [st EXCEPT !.ai_generated_content = document,
               !.enhanced_images = IF st.enhanced_images # <<>> THEN st.enhanced_images
                                   ELSE enhanced,
               !.seo_title = content.seo_title,
               !.seo_description = content.seo_description,
               !.seo_keywords = content.keywords,
               !.status = "completed",
               !.generation_progress = 100,
               !.error_message = None]

\* A step 6 that mirrors the product title into seo_title.
StoreResultTitleAsSeo(st, document, enhanced, content) ==
    [st EXCEPT !.ai_generated_content = document,
               !.enhanced_images = enhanced,
               !.seo_title = content.product_title,
               !.seo_description = content.seo_description,
               !.seo_keywords = content.keywords,
               !.status = "completed",
               !.generation_progress = 100,
               !.error_message = None]

\* Step 6 of generate_complete_store, up to its commit.
StoreResult(st, document, enhanced, content) ==
    [st EXCEPT !.ai_generated_content = document,
               !.enhanced_images = enhanced,
               !.seo_title = content.seo_title,
               !.seo_description = content.seo_description,
               !.seo_keywords = content.keywords,
               !.status = "completed",
               !.generation_progress = 100,
               !.error_message = None]

NoRunEnv == [responses |-> [i \in Requests |-> "none"], chain_envs |-> <<>>]

\* An exception inside the try block: control goes to the except branch.
Throw(e) ==
    /\ exc' = e
    /\ pc' = "except"

\* generate_complete_store is entered: by the background task generate_store
\* queued, or by a later call on the same store.
Begin ==
    /\ pc \in {"queued", "returned", "raised"}
    /\ pc' = "checkpoint_10"
    /\ scraped_product' = NoProduct
    /\ generated_content' = NoContent
    /\ enhanced_images' = <<>>
    /\ exc' = NoExc
    /\ progress_log' = <<>>
    /\ db_fault' = FALSE
    /\ run_env' = NoRunEnv
    /\ store_at_begin' = store
    /\ store_data' = EmptyDict
    /\ UNCHANGED <<store, contentVars, enhanceVars, publishVars, generateVars>>

\* await self._update_store_progress(store, progress, message): the commit
\* goes through, or raises and leaves the row as it was.
Checkpoint(at, progress, message, next) ==
    /\ pc = at
    /\ \/ /\ store' = _update_store_progress(store, progress, message)
          /\ progress_log' = Append(progress_log, store'.generation_progress)
          /\ pc' = next
          /\ UNCHANGED <<exc, db_fault>>
       \/ /\ Throw(CommitError)
          /\ db_fault' = TRUE
          /\ UNCHANGED <<store, progress_log>>
    /\ UNCHANGED <<scraped_product, generated_content, enhanced_images,
                   run_env, store_at_begin, store_data, contentVars, enhanceVars, publishVars, generateVars>>

Checkpoint10 == Checkpoint("checkpoint_10", 10, "Scraping product data...", "scrape")
\* A second checkpoint after which the run goes straight to the images.
Checkpoint25ThenEnhance ==
    Checkpoint("checkpoint_25", 25, "Generating AI content...", "enhance")

Checkpoint25 == Checkpoint("checkpoint_25", 25, "Generating AI content...", "content")
Checkpoint50 == Checkpoint("checkpoint_50", 50, "Enhancing product images...", "enhance")
Checkpoint75 == Checkpoint("checkpoint_75", 75, "Building store structure...", "build")
Checkpoint90 == Checkpoint("checkpoint_90", 90, "Finalizing store...", "finalize")

\* Step 1: await self.scraper.scrape_product(product_url).
Scrape ==
    /\ pc = "scrape"
    /\ \/ \E product \in ScrapeResults :
             /\ scraped_product' = product
             /\ pc' = "checkpoint_25"
             /\ UNCHANGED exc
       \/ /\ Throw(ScrapeError)
          /\ UNCHANGED scraped_product
    /\ UNCHANGED <<store, generated_content, enhanced_images, progress_log, db_fault,
                   run_env, store_at_begin, store_data, contentVars, enhanceVars, publishVars, generateVars>>

\* Steps 2-3: await self.content_generator.generate_complete_content(...).
Content ==
    /\ pc = "content"
    /\ \E resp \in PipelineResponses :
         /\ run_env' = [run_env EXCEPT !.responses = resp]
         /\ \E r \in GenerateCompleteContentOutcomes(ToProductInfo(scraped_product), resp) :
              IF r.raised
              THEN Throw(r.exc) /\ UNCHANGED generated_content
              ELSE /\ generated_content' = r.value
                   /\ pc' = "checkpoint_50"
                   /\ UNCHANGED exc
    /\ UNCHANGED <<store, scraped_product, enhanced_images, progress_log, db_fault,
                   store_at_begin, store_data, contentVars, enhanceVars, publishVars, generateVars>>

\* A step 4 that fails on a product without images.
EnhanceRequiresImages ==
    /\ pc = "enhance"
    /\ IF scraped_product.images # <<>>
       THEN /\ \E envs \in [1..Len(StartedUrls(scraped_product.images)) -> PipelineChainEnvs] :
                  /\ enhanced_images' = enhance_product_images(scraped_product.images,
                                                               store.theme_style, TRUE, envs)
                  /\ run_env' = [run_env EXCEPT !.chain_envs = envs]
            /\ pc' = "checkpoint_75"
            /\ UNCHANGED exc
       ELSE /\ Throw("no images to enhance")
            /\ UNCHANGED <<enhanced_images, run_env>>
    /\ UNCHANGED <<store, scraped_product, generated_content, progress_log, db_fault,
                   store_at_begin, store_data, contentVars, enhanceVars, publishVars, generateVars>>

\* Step 4: enhance_product_images, skipped when the product has no images.
Enhance ==
    /\ pc = "enhance"
    /\ IF scraped_product.images # <<>>
       THEN \E envs \in [1..Len(StartedUrls(scraped_product.images)) -> PipelineChainEnvs] :
               /\ enhanced_images' = enhance_product_images(scraped_product.images,
                                                            store.theme_style, TRUE, envs)
               /\ run_env' = [run_env EXCEPT !.chain_envs = envs]
       ELSE enhanced_images' = <<>> /\ UNCHANGED run_env
    /\ pc' = "checkpoint_75"
    /\ UNCHANGED <<store, scraped_product, generated_content, exc, progress_log, db_fault,
                   store_at_begin, store_data, contentVars, enhanceVars, publishVars, generateVars>>

\* A step 5 that also writes a progress value to the row.
BuildWritesProgress ==
    /\ pc = "build"
    /\ store_data' = _build_store_structure(store, scraped_product,
                                            generated_content, enhanced_images)
    /\ store' = [store EXCEPT !.generation_progress = 80]
    /\ pc' = "checkpoint_90"
    /\ UNCHANGED <<scraped_product, generated_content, enhanced_images,
                   exc, progress_log, db_fault, run_env, store_at_begin,
                   contentVars, enhanceVars, publishVars, generateVars>>

\* Step 5: store_data = await self._build_store_structure(...).
Build ==
    /\ pc = "build"
    /\ store_data' = _build_store_structure(store, scraped_product,
                                            generated_content, enhanced_images)
    /\ pc' = "checkpoint_90"
    /\ UNCHANGED <<store, scraped_product, generated_content, enhanced_images,
                   exc, progress_log, db_fault, run_env, store_at_begin,
                   contentVars, enhanceVars, publishVars, generateVars>>

\* Step 6: the assignments and the commit that stores the result.
Finalize ==
    /\ pc = "finalize"
    /\ \/ /\ store' = StoreResult(store, store_data, enhanced_images, generated_content)
          /\ progress_log' = Append(progress_log, store'.generation_progress)
          /\ pc' = "returned"
          /\ UNCHANGED <<exc, db_fault>>
       \/ /\ Throw(CommitError)
          /\ db_fault' = TRUE
          /\ UNCHANGED <<store, progress_log>>
    /\ UNCHANGED <<scraped_product, generated_content, enhanced_images,
                   run_env, store_at_begin, store_data, contentVars, enhanceVars, publishVars, generateVars>>

\* except Exception as e: the row is read again, marked and committed, and e
\* is raised again.  After a failed commit the session may still be unusable,
\* and then the query or the commit of this branch raises instead.
Except ==
    /\ pc = "except"
    /\ \/ store' = MarkError(store, exc)
       \/ db_fault /\ UNCHANGED store
    /\ pc' = "raised"
    /\ UNCHANGED <<scraped_product, generated_content, enhanced_images, exc,
                   progress_log, db_fault, run_env, store_at_begin,
                   store_data, contentVars, enhanceVars, publishVars, generateVars>>

---------------------------------------------------------------------------
(* app/api/stores.py publish_store and publish_to_shopify                  *)

\* The publish requests made for the store.
PublishRequests == {"first", "second"}

\* The User row of the store's owner.
TheUser == [shopify_shop_domain |-> "test-shop.myshopify.com", company |-> None]

UserNotFound  == "User not found"
PlatformError == "HTTPStatusError: the shop refused the request"

\* The keys of pages_data in the order _build_store_structure inserts them.
PageKeys == <<"about", "faq", "contact", "shipping", "privacy">>

\* sep.join(items)
RECURSIVE Join(_, _)
Join(sep, items) ==
    IF items = <<>> THEN <<>>
    ELSE IF Len(items) = 1 THEN items[1]
    ELSE items[1] \o <<sep>> \o Join(sep, Tail(items))

_format_page_content(page_content) ==
    IF "items" \in DOMAIN page_content
    THEN [h1 |-> page_content.title, faq_items |-> page_content.items]
    ELSE [h1 |-> page_content.title, div |-> page_content.content]

\* The argument of shopify_client.create_product.
ProductPayload(st, user) ==
    LET product_data == Get(st.ai_generated_content, "product", EmptyDict)
        kept == SelectSeq(st.enhanced_images, LAMBDA img : img.enhanced_url # NoUrl)
    IN  [title        |-> Get(product_data, "title", st.store_name),
         body_html    |-> Get(product_data, "description", <<>>),
         vendor       |-> IF user.company # None THEN user.company ELSE "StoreForge",
         product_type |-> Get(st.ai_generated_content, "category", "General"),
         tags         |-> Join(", ", st.seo_keywords),
         images       |-> [i \in 1..Len(kept) |-> [src |-> kept[i].enhanced_url]]]

\* A page loop that skips the page that has items instead of content.
PagesWithContent(st) ==
    LET pages_data == Get(st.ai_generated_content, "pages", EmptyDict)
    IN  SelectSeq(PageKeys, LAMBDA k : k \in DOMAIN pages_data /\ k # "faq")

\* The pages _create_store_pages creates, in order.
PagesToCreate(st) ==
    LET pages_data == Get(st.ai_generated_content, "pages", EmptyDict)
    IN  SelectSeq(PageKeys, LAMBDA k : k \in DOMAIN pages_data)

\* The argument of shopify_client.create_page for one page.
PagePayload(st, page_key) ==
    LET page_content == st.ai_generated_content.pages[page_key]
    IN  [title |-> page_content.title,
         body_html |-> _format_page_content(page_content),
         published |-> TRUE]

PlatformCall(op, data) == [op |-> op, data |-> data]

\* A publish request: where it stands, the Store object its service loaded,
\* the platform calls it has made (the last one is outstanding while pc is
\* "calling") and the exception it ended with.
NoTask == [pc |-> "none", snapshot |-> <<>>, calls |-> <<>>, exc |-> NoExc]

\* An endpoint that schedules the background task whatever the status.
publish_store_ungated(st) == "scheduled"

\* A gate that turns away only the stores still being generated.
publish_store_unless_generating(st) ==
    IF st.status = "generating" THEN "rejected" ELSE "scheduled"

\* publish_store: 400 unless the store is completed, else the background
\* task is scheduled.
publish_store(st) ==
    IF st.status # "completed" THEN "rejected" ELSE "scheduled"

\* A publish that also clears the run's progress.
PublishedResetsProgress(st, user) ==
    [st EXCEPT !.shopify_store_url = <<"https://", user.shopify_shop_domain>>,
               !.status = "published", !.generation_progress = 0]

\* The assignments of publish_to_shopify before its commit.
Published(st, user) ==
    [st EXCEPT !.shopify_store_url = <<"https://", user.shopify_shop_domain>>,
               !.status = "published"]

\* An except branch that marks the store as failed.
PublishFailureMarksError(st) ==
    [st EXCEPT !.status = "error"]

\* The except branch of publish_to_shopify: it logs and raises again.
PublishFailure(st) == st

\* POST /{store_id}/publish.  Requests are numbered in the order they arrive.
PublishStore(r) ==
    /\ publish_tasks[r].pc = "none"
    /\ r = "second" => publish_tasks["first"].pc # "none"
    /\ publish_tasks' = [publish_tasks EXCEPT ![r].pc = publish_store(store)]
    /\ UNCHANGED <<pipelineVars, contentVars, enhanceVars, generateVars>>

\* An attempt that goes straight to the pages when an earlier attempt has
\* had its product created.
PublishStartSkipsCreated(r) ==
    /\ publish_tasks[r].pc = "scheduled"
    /\ \/ publish_tasks' = [publish_tasks EXCEPT ![r] =
              [pc |-> "calling", snapshot |-> <<store>>,
               calls |-> IF \E q \in PublishRequests \ {r} : Len(publish_tasks[q].calls) >= 2
                         THEN <<PlatformCall("create_page", PagePayload(store, "about"))>>
                         ELSE <<PlatformCall("create_product", ProductPayload(store, TheUser))>>,
               exc |-> NoExc]]
       \/ publish_tasks' = [publish_tasks EXCEPT ![r].pc = "raised",
                                                 ![r].exc = UserNotFound]
    /\ UNCHANGED <<pipelineVars, contentVars, enhanceVars, generateVars>>

\* _publish_store_background enters publish_to_shopify: the store and the
\* user are read and create_product is awaited.
PublishStart(r) ==
    /\ publish_tasks[r].pc = "scheduled"
    /\ \/ publish_tasks' = [publish_tasks EXCEPT ![r] =
              [pc |-> "calling", snapshot |-> <<store>>,
               calls |-> <<PlatformCall("create_product", ProductPayload(store, TheUser))>>,
               exc |-> NoExc]]
       \/ publish_tasks' = [publish_tasks EXCEPT ![r].pc = "raised",
                                                 ![r].exc = UserNotFound]
    /\ UNCHANGED <<pipelineVars, contentVars, enhanceVars, generateVars>>

\* The awaited platform call returns: the next page is created, or, after
\* the last one, the store is marked published and committed.
PlatformCallReturns(r) ==
    LET task  == publish_tasks[r]
        st    == task.snapshot[1]
        pages == PagesToCreate(st)
        done  == Len(task.calls) - 1
    IN  /\ task.pc = "calling"
        /\ IF done < Len(pages)
           THEN /\ publish_tasks' = [publish_tasks EXCEPT ![r].calls =
                       Append(task.calls,
                              PlatformCall("create_page", PagePayload(st, pages[done + 1])))]
                /\ UNCHANGED store
           ELSE \/ /\ store' = Published(store, TheUser)
                   /\ publish_tasks' = [publish_tasks EXCEPT ![r].pc = "returned"]
                \/ /\ store' = PublishFailure(store)
                   /\ publish_tasks' = [publish_tasks EXCEPT ![r].pc = "raised",
                                                             ![r].exc = CommitError]
        /\ UNCHANGED <<pc, scraped_product, generated_content, enhanced_images, exc,
                       progress_log, db_fault, run_env, store_at_begin, store_data,
                       contentVars, enhanceVars, generateVars>>

\* The awaited platform call raises (raise_for_status, timeout, transport).
PlatformCallFails(r) ==
    /\ publish_tasks[r].pc = "calling"
    /\ store' = PublishFailure(store)
    /\ publish_tasks' = [publish_tasks EXCEPT ![r].pc = "raised",
                                              ![r].exc = PlatformError]
    /\ UNCHANGED <<pc, scraped_product, generated_content, enhanced_images, exc,
                   progress_log, db_fault, run_env, store_at_begin, store_data,
                   contentVars, enhanceVars, generateVars>>

PublishIdle == publish_tasks = [r \in PublishRequests |-> NoTask]

---------------------------------------------------------------------------
(* app/api/stores.py generate_store and app/api/billing.py                 *)

\* get_current_user: a new User object on every call, not read from the
\* users table and not attached to the session.
get_current_user ==
    [id |-> 1, shopify_shop_domain |-> "test-shop.myshopify.com",
     stores_built |-> 0, monthly_limit |-> 10]

\* The users table row with the column defaults of the model.
NewUserRow == [subscription_plan |-> "free", stores_built |-> 0, monthly_limit |-> 1]

\* The plans a checkout can be completed for.
PlanIds == {"price_pro_monthly", "price_agency_monthly"}

\* An id assignment that hands out the same id again.
FirstStoreId(table) == 1

\* The primary key the database gives the row generate_store adds: the next
\* value of the table's sequence (no row is deleted here).
NextStoreId(table) == Cardinality(DOMAIN table) + 1

\* The row generate_store adds, as far as the runs are followed here.
StoreRow(id, user) ==
    [id |-> id, user_id |-> user.id, status |-> "generating",
     generation_progress |-> 0, written_by |-> {}]

NoStores == [id \in {} |-> StoreRow(id, get_current_user)]

GenerateIdle ==
    /\ stores = NoStores
    /\ runs = <<>>
    /\ users = NewUserRow
    /\ quota = [requests |-> 0, accepted |-> 0, refused |-> 0]

\* What db.commit() writes of current_user.stores_built += 1: the object is
\* not in the session, so the users table keeps its row.
CommitUser(row, current_user) == row

\* POST /stores/generate.  The handler has no await that suspends it, so it
\* runs as one step.
generate_store ==
    LET current_user == get_current_user
    IN  IF current_user.stores_built >= current_user.monthly_limit
        THEN /\ quota' = [quota EXCEPT !.requests = @ + 1, !.refused = @ + 1]
             /\ UNCHANGED <<stores, runs, users>>
        ELSE LET id == NextStoreId(stores)
                 task_id == Len(runs) + 1
                 counted == [current_user EXCEPT !.stores_built = @ + 1]
             IN  /\ stores' = (id :> StoreRow(id, current_user)) @@ stores
                 /\ runs' = Append(runs, [task_id |-> task_id, store_id |-> id,
                                           pc |-> "scheduled"])
                 /\ users' = CommitUser(users, counted)
                 /\ quota' = [quota EXCEPT !.requests = @ + 1, !.accepted = @ + 1]

GenerateStore ==
    /\ generate_store
    /\ UNCHANGED <<pipelineVars, publishVars, contentVars, enhanceVars>>

\* _generate_store_background starts generate_complete_store, which commits
\* its first checkpoint to the row of its store_id.
RunBegins(t) ==
    /\ runs[t].pc = "scheduled"
    /\ runs' = [runs EXCEPT ![t].pc = "running"]
    /\ stores' = [stores EXCEPT ![runs[t].store_id] =
                     [@ EXCEPT !.generation_progress = 10,
                               !.written_by = @ \cup {runs[t].task_id}]]
    /\ UNCHANGED <<users, quota, pipelineVars, publishVars, contentVars, enhanceVars>>

\* generate_complete_store ends: its last commit marks the row completed or
\* error, and the background task swallows what it raised.
RunEnds(t) ==
    /\ runs[t].pc = "running"
    /\ runs' = [runs EXCEPT ![t].pc = "ended"]
    /\ \E status \in {"completed", "error"} :
          stores' = [stores EXCEPT ![runs[t].store_id] =
                       [@ EXCEPT !.status = status,
                                 !.generation_progress =
                                     IF status = "completed" THEN 100 ELSE @,
                                 !.written_by = @ \cup {runs[t].task_id}]]
    /\ UNCHANGED <<users, quota, pipelineVars, publishVars, contentVars, enhanceVars>>

\* The Stripe webhook of a completed checkout for user 1.
_handle_checkout_completed(plan_id) ==
    /\ users' = [subscription_plan |-> IF plan_id = "price_pro_monthly" THEN "pro" ELSE "agency",
                 monthly_limit |-> IF plan_id = "price_pro_monthly" THEN 10 ELSE 999999,
                 stores_built |-> 0]
    /\ quota' = [quota EXCEPT !.accepted = 0, !.refused = 0]
    /\ UNCHANGED <<stores, runs, pipelineVars, publishVars, contentVars, enhanceVars>>

GenerateRequest == quota.requests < MaxRuns /\ GenerateStore

GenerateNext ==
    \/ GenerateRequest
    \/ \E t \in DOMAIN runs : RunBegins(t)
    \/ \E t \in DOMAIN runs : RunEnds(t)


PipelineInit ==
    /\ \E cfg \in {<<"modern", EmptyDict>>, <<"luxury", CustomColors>>,
                   <<"professional", EmptyDict>>} :
          store = NewStore(cfg[1], cfg[2])
    /\ pc = "queued"
    /\ scraped_product = NoProduct
    /\ generated_content = NoContent
    /\ enhanced_images = <<>>
    /\ exc = NoExc
    /\ progress_log = <<>>
    /\ db_fault = FALSE
    /\ run_env = NoRunEnv
    /\ store_at_begin = store
    /\ store_data = EmptyDict

PipelineIdle ==
    /\ store = NewStore("modern", EmptyDict)
    /\ pc = "idle"
    /\ scraped_product = NoProduct
    /\ generated_content = NoContent
    /\ enhanced_images = <<>>
    /\ exc = NoExc
    /\ progress_log = <<>>
    /\ db_fault = FALSE
    /\ run_env = NoRunEnv
    /\ store_at_begin = store
    /\ store_data = EmptyDict

NoCall == [kind |-> "none", state |-> "idle", exc |-> NoExc, value |-> <<>>]

ContentIdle ==
    /\ product_info = NoProduct
    /\ tasks = <<>>
    /\ call = NoCall

NoFlags == [style |-> "modern", enhance_quality |-> TRUE, remove_background |-> FALSE]

\* No call of _poll_generation_completion is under way.
NoPoll == [pc |-> "idle", attempt |-> 0, requests |-> 0, status |-> "none",
           generated_images |-> <<>>, result |-> Returned(NoUrl)]

BatchIdle ==
    /\ image_urls = <<>>
    /\ flags = NoFlags
    /\ chains = <<>>
    /\ batch = NoCall

EnhanceIdle == BatchIdle /\ poll = NoPoll

Init == PipelineInit /\ PublishIdle /\ GenerateIdle /\ ContentIdle /\ EnhanceIdle

Next ==
    \/ Begin
    \/ Checkpoint10
    \/ Scrape
    \/ Checkpoint25
    \/ Content
    \/ Checkpoint50
    \/ Enhance
    \/ Checkpoint75
    \/ Build
    \/ Checkpoint90
    \/ Finalize
    \/ Except

Spec == Init /\ [][Next]_vars

\* The store as the API drives it: the one run generate_store queued, and
\* publish requests at any time.
RunOnce == pc = "queued" /\ Begin

PublishNext ==
    \/ RunOnce
    \/ Checkpoint10
    \/ Scrape
    \/ Checkpoint25
    \/ Content
    \/ Checkpoint50
    \/ Enhance
    \/ Checkpoint75
    \/ Build
    \/ Checkpoint90
    \/ Finalize
    \/ Except
    \/ \E r \in PublishRequests : PublishStore(r)
    \/ \E r \in PublishRequests : PublishStart(r)
    \/ \E r \in PublishRequests : PlatformCallReturns(r)
    \/ \E r \in PublishRequests : PlatformCallFails(r)

SpecPublish == Init /\ [][PublishNext]_vars

---------------------------------------------------------------------------
(* generate_store, request by request                                      *)

GenerateInit ==
    /\ PipelineIdle
    /\ PublishIdle
    /\ GenerateIdle
    /\ ContentIdle
    /\ EnhanceIdle

\* The requests of one user and the runs they start.
SpecGenerate == GenerateInit /\ [][GenerateNext]_vars

\* The requests of one user against their monthly limit, with the checkouts
\* that reset the month's count.
QuotaRequest == quota.requests < MaxRequests /\ GenerateStore

CheckoutCompleted ==
    \E plan_id \in PlanIds : _handle_checkout_completed(plan_id)

QuotaNext ==
    \/ QuotaRequest
    \/ CheckoutCompleted

SpecQuota == GenerateInit /\ [][QuotaNext]_vars

---------------------------------------------------------------------------
(* _build_store_structure on its own                                       *)

\* The Store rows the assembler can be given: the styles the API names
\* (modern, luxury, minimal) and one outside the tables, with and without
\* brand colors.
AssembleStores ==
    {NewStore(theme_style, brand_colors) :
        theme_style \in ThemeStyles \cup {"minimal"},
        brand_colors \in {EmptyDict, CustomColors}}

\* The GeneratedContent values generate_complete_content can return.
AssembleContents(product) ==
    {r.value : r \in {o \in UNION {GenerateCompleteContentOutcomes(ToProductInfo(product), resp) :
                                      resp \in PipelineResponses} : ~o.raised}}

\* The List[EnhancedImage] values enhance_product_images can return.
AssembleEnhanced ==
    {<<>>} \cup
    UNION {{enhance_product_images(SourceUrls(n), "modern", TRUE, envs) :
               envs \in [1..n -> PipelineChainEnvs]} : n \in 1..2}

\* The arguments of one call of _build_store_structure.
AssembleInit ==
    /\ store \in AssembleStores
    /\ pc = "build"
    /\ scraped_product \in ScrapeResults
    /\ generated_content \in AssembleContents(scraped_product)
    /\ enhanced_images \in AssembleEnhanced
    /\ exc = NoExc
    /\ progress_log = <<>>
    /\ db_fault = FALSE
    /\ run_env = NoRunEnv
    /\ store_at_begin = store
    /\ store_data = EmptyDict
    /\ PublishIdle
    /\ GenerateIdle
    /\ ContentIdle
    /\ EnhanceIdle

AssembleNext == Build

SpecAssemble == AssembleInit /\ [][AssembleNext]_vars

---------------------------------------------------------------------------
(* generate_complete_content, coroutine by coroutine                       *)

PendingTask ==
    [settled |-> FALSE, kind |-> "none", raised |-> FALSE, exc |-> NoExc,
     value |-> Txt(<<"pending">>)]

SettledTask(kind, r) ==
    [settled |-> TRUE, kind |-> kind, raised |-> r.raised, exc |-> r.exc,
     value |-> IF r.raised THEN Txt(<<"no value">>) ELSE r.value]

ContentInit ==
    /\ product_info \in ProductInfos
    /\ tasks = [i \in Requests |-> PendingTask]
    /\ call = [kind |-> "generate_complete_content", state |-> "awaiting",
               exc |-> NoExc, value |-> <<>>]
    /\ PipelineIdle
    /\ PublishIdle
    /\ GenerateIdle
    /\ EnhanceIdle

\* One of the six coroutines gets its response and finishes.  gather was
\* called without return_exceptions: the first coroutine that raises sets the
\* exception of the awaited future at once; the others keep running.
RequestSettles(i) ==
    /\ call.kind = "generate_complete_content"
    /\ ~tasks[i].settled
    /\ \E kind \in ResponseKinds :
         LET r == RunRequest(RequestNames[i], product_info, kind)
         IN  /\ tasks' = [tasks EXCEPT ![i] = SettledTask(kind, r)]
             /\ call' = IF r.raised /\ call.state = "awaiting"
                        THEN [call EXCEPT !.state = "raised", !.exc = r.exc]
                        ELSE call
    /\ UNCHANGED <<product_info, pipelineVars, enhanceVars, publishVars, generateVars>>

\* All six have returned: the results are put into GeneratedContent(...).
GatherReturns ==
    /\ call.kind = "generate_complete_content"
    /\ call.state = "awaiting"
    /\ \A i \in Requests : tasks[i].settled /\ ~tasks[i].raised
    /\ LET r == BuildGeneratedContent([i \in Requests |-> tasks[i].value])
       IN  call' = IF r.raised
                   THEN [call EXCEPT !.state = "raised", !.exc = r.exc]
                   ELSE [call EXCEPT !.state = "returned", !.value = <<r.value>>]
    /\ UNCHANGED <<product_info, tasks, pipelineVars, enhanceVars, publishVars, generateVars>>

ContentNext ==
    \/ \E i \in Requests : RequestSettles(i)
    \/ GatherReturns

SpecContent == ContentInit /\ [][ContentNext]_vars

---------------------------------------------------------------------------
(* enhance_product_images and enhance_single_image, chain by chain         *)

Styles == {"modern", "professional"}

\* The chain environments drawn for the images of a batch.
BatchChainEnvs ==
    {[download |-> "ok",    quality |-> "complete",        background |-> "complete", style |-> "complete"],
     [download |-> "error", quality |-> "complete",        background |-> "complete", style |-> "complete"],
     [download |-> "ok",    quality |-> "failed",          background |-> "complete", style |-> "complete"],
     [download |-> "ok",    quality |-> "complete",        background |-> "complete", style |-> "never_done"],
     [download |-> "ok",    quality |-> "transport_error", background |-> "complete", style |-> "transport_error"],
     [download |-> "ok",    quality |-> "no_output",       background |-> "complete", style |-> "no_output"]}

NoEnv == [download |-> "none", quality |-> "none", background |-> "none", style |-> "none"]

PendingChain(url) ==
    [settled |-> FALSE, env |-> NoEnv, raised |-> FALSE,
     result |-> EnhancedImage(url, url, "none", "pending"), submitted |-> <<>>]

SettledChain(env, r, submitted) ==
    [settled |-> TRUE, env |-> env, raised |-> r.raised,
     result |-> IF r.raised THEN EnhancedImage(NoUrl, NoUrl, "none", "exception")
                ELSE r.value,
     submitted |-> submitted]

EnhanceInit ==
    /\ \/ /\ batch = [kind |-> "enhance_product_images", state |-> "awaiting",
                      exc |-> NoExc, value |-> <<>>]
          /\ \E n \in 0..MaxBatchImages : image_urls = SourceUrls(n)
          /\ flags \in [style : Styles, enhance_quality : BOOLEAN, remove_background : {FALSE}]
       \/ /\ batch = [kind |-> "enhance_single_image", state |-> "awaiting",
                      exc |-> NoExc, value |-> <<>>]
          /\ image_urls = SourceUrls(1)
          /\ flags \in [style : Styles, enhance_quality : BOOLEAN, remove_background : BOOLEAN]
    /\ chains = [i \in 1..Len(StartedUrls(image_urls)) |-> PendingChain(image_urls[i])]
    /\ poll = NoPoll
    /\ PipelineIdle
    /\ PublishIdle
    /\ GenerateIdle
    /\ ContentIdle

\* One chain runs to its end.
ChainSettles(i) ==
    /\ batch.state = "awaiting"
    /\ ~chains[i].settled
    /\ \E env \in (IF batch.kind = "enhance_single_image" THEN ChainEnvs ELSE BatchChainEnvs) :
         chains' = [chains EXCEPT ![i] =
                       SettledChain(env,
                           enhance_single_image(image_urls[i], flags.style,
                               flags.enhance_quality, flags.remove_background, env),
                           ChainRun(image_urls[i], flags.style, flags.enhance_quality,
                               flags.remove_background, env).submitted)]
    /\ UNCHANGED <<image_urls, flags, batch, poll, pipelineVars, contentVars, publishVars, generateVars>>

\* gather(..., return_exceptions=True) has every result: the EnhancedImage
\* results are collected and returned.
BatchReturns ==
    /\ batch.kind = "enhance_product_images"
    /\ batch.state = "awaiting"
    /\ \A i \in DOMAIN chains : chains[i].settled
    /\ batch' = [batch EXCEPT !.state = "returned",
                    !.value = CollectEnhanced([i \in DOMAIN chains |->
                                 [raised |-> chains[i].raised, value |-> chains[i].result]])]
    /\ UNCHANGED <<image_urls, flags, chains, poll, pipelineVars, contentVars, publishVars, generateVars>>

\* A direct call of enhance_single_image returns its EnhancedImage.
SingleReturns ==
    /\ batch.kind = "enhance_single_image"
    /\ batch.state = "awaiting"
    /\ chains[1].settled
    /\ batch' = [batch EXCEPT !.state = "returned", !.value = <<chains[1].result>>]
    /\ UNCHANGED <<image_urls, flags, chains, poll, pipelineVars, contentVars, publishVars, generateVars>>

EnhanceNext ==
    \/ \E i \in DOMAIN chains : ChainSettles(i)
    \/ BatchReturns
    \/ SingleReturns

SpecEnhance == EnhanceInit /\ [][EnhanceNext]_vars

---------------------------------------------------------------------------
(* _poll_generation_completion, poll by poll                               *)

\* The statuses a job can report; the loop tests for COMPLETE and FAILED only.
PollStatuses == {"PENDING", "PROCESSING", "COMPLETE", "FAILED"}

GeneratedUrl(n) == [kind |-> "generated", id |-> n, passes |-> <<>>]

\* generation["generated_images"] of a response.
GeneratedImageLists ==
    {<<>>,
     <<[url |-> GeneratedUrl(1)]>>,
     <<[url |-> GeneratedUrl(1)], [url |-> GeneratedUrl(2)]>>}

StatusRequestError == "HTTPStatusError: the status request was refused"

\* A loop condition that lets one more iteration through.
PollGuardInclusive(attempt) == attempt <= max_attempts

\* while attempt < max_attempts
PollGuard(attempt) == attempt < max_attempts

\* A loop body that takes COMPLETE without output for a job still running.
CheckGenerationIgnoresEmpty(status, generated_images) ==
    IF status = "COMPLETE" /\ generated_images # <<>>
    THEN [next |-> "returned", result |-> Returned(generated_images[1].url)]
    ELSE IF status = "FAILED"
    THEN [next |-> "raised", result |-> Raised("Image generation failed")]
    ELSE [next |-> "sleeping", result |-> Returned(NoUrl)]

\* The if / elif of the loop body on one response.
CheckGeneration(status, generated_images) ==
    IF status = "COMPLETE"
    THEN IF generated_images # <<>>
         THEN [next |-> "returned", result |-> Returned(generated_images[1].url)]
         ELSE [next |-> "raised", result |-> Raised("No images generated")]
    ELSE IF status = "FAILED"
    THEN [next |-> "raised", result |-> Raised("Image generation failed")]
    ELSE [next |-> "sleeping", result |-> Returned(NoUrl)]

PollInit ==
    /\ poll = [NoPoll EXCEPT !.pc = "loop"]
    /\ BatchIdle
    /\ PipelineIdle
    /\ PublishIdle
    /\ GenerateIdle
    /\ ContentIdle

\* One iteration up to the sleep: the GET, raise_for_status, and the test of
\* the status the response carries.
PollRequest ==
    /\ poll.pc = "loop"
    /\ PollGuard(poll.attempt)
    /\ \/ poll' = [poll EXCEPT !.requests = @ + 1, !.status = "none",
                                !.generated_images = <<>>, !.pc = "raised",
                                !.result = Raised(StatusRequestError)]
       \/ \E status \in PollStatuses, generated_images \in GeneratedImageLists :
             LET c == CheckGeneration(status, generated_images)
             IN  poll' = [poll EXCEPT !.requests = @ + 1, !.status = status,
                                      !.generated_images = generated_images,
                                      !.pc = c.next, !.result = c.result]
    /\ UNCHANGED <<image_urls, flags, chains, batch, pipelineVars, contentVars, publishVars, generateVars>>

\* await asyncio.sleep(10); attempt += 1
PollSleep ==
    /\ poll.pc = "sleeping"
    /\ poll' = [poll EXCEPT !.attempt = @ + 1, !.pc = "loop"]
    /\ UNCHANGED <<image_urls, flags, chains, batch, pipelineVars, contentVars, publishVars, generateVars>>

\* The loop condition is false: raise Exception("Generation timeout").
PollTimeout ==
    /\ poll.pc = "loop"
    /\ ~PollGuard(poll.attempt)
    /\ poll' = [poll EXCEPT !.pc = "raised", !.result = Raised("Generation timeout")]
    /\ UNCHANGED <<image_urls, flags, chains, batch, pipelineVars, contentVars, publishVars, generateVars>>

PollNext ==
    \/ PollRequest
    \/ PollSleep
    \/ PollTimeout

SpecPoll == PollInit /\ [][PollNext]_vars

\* The event loop resumes the coroutine when the GET it awaits has answered
\* or run into the client's 60 s timeout, and when its sleep is over.
SpecPollLive == PollInit /\ [][PollNext]_vars /\ WF_vars(PollNext)

---------------------------------------------------------------------------
(* Properties of generate_complete_store (Spec)                            *)

Last(s) == s[Len(s)]

ProgressTexts ==
    {"Scraping product data...", "Generating AI content...",
     "Enhancing product images...", "Building store structure...",
     "Finalizing store..."}

\* The fields of the Store row that hold a run's results.
ResultFields(st) ==
    <<st.ai_generated_content, st.enhanced_images, st.seo_title,
      st.seo_description, st.seo_keywords>>

\* C1: within one run the progress values committed to the Store row never
\* decrease; a run that returns has committed 100 last, and a run that raises
\* leaves the row's progress at the last value committed before the failure
\* (the value the run found when it committed none).
C1_ProgressMonotone ==
    /\ \A i \in 1..(Len(progress_log) - 1) : progress_log[i] <= progress_log[i + 1]
    /\ pc = "returned" =>
          /\ progress_log # <<>>
          /\ Last(progress_log) = 100
          /\ store.generation_progress = 100
    /\ pc = "raised" =>
          store.generation_progress =
             IF progress_log = <<>> THEN store_at_begin.generation_progress
             ELSE Last(progress_log)

\* A second run on a completed store has failed after two checkpoints.
C1_Witness ==
    /\ pc = "raised"
    /\ progress_log = <<10, 25>>
    /\ store_at_begin.generation_progress = 100
    /\ store.status = "error"

\* The run ended because the scrape or the content synthesis raised.
StageFailure == pc = "raised" /\ exc \notin {NoExc, CommitError}

\* C2: when the scrape or the content synthesis raises, the run ends with
\* status error, the failure's description as error_message (not a progress
\* text), the progress of the last checkpoint (10 for a failed scrape), and
\* the result fields as the run found them.
C2_AbortOnStageFailure ==
    StageFailure =>
        /\ store.status = "error"
        /\ store.error_message = exc
        /\ store.error_message \notin ProgressTexts
        /\ progress_log # <<>>
        /\ store.generation_progress = Last(progress_log)
        /\ exc = ScrapeError => store.generation_progress = 10
        /\ exc # ScrapeError => store.generation_progress = 25
        /\ ResultFields(store) = ResultFields(store_at_begin)

\* The scrape failed in a run on a store that an earlier run had completed.
C2_Witness ==
    /\ StageFailure
    /\ exc = ScrapeError
    /\ store_at_begin.status = "completed"
    /\ store.ai_generated_content # EmptyDict

\* C3 as claimed: once the run has returned or raised, the persisted status
\* is completed or error, never still generating.
C3_TerminalStatus ==
    pc \in {"returned", "raised"} => store.status \in {"completed", "error"}

AllRequestsFailed ==
    \A i \in Requests : run_env.responses[i] \notin {"none", "json_expected"}

FirstPassFailed(env) == env.download = "ok" /\ ~PassSucceeds(env.quality)

\* C7 as claimed: a run in which all six generation requests fail and both
\* images of the product fail at their first pass ends completed at 100, with
\* fallback content and both images tagged fallback_original.
C7_DegradedRunCompletes ==
    ( /\ pc \in {"returned", "raised"}
      /\ ~db_fault
      /\ AllRequestsFailed
      /\ Len(scraped_product.images) = 2
      /\ \A i \in DOMAIN run_env.chain_envs : FirstPassFailed(run_env.chain_envs[i]) )
    =>  /\ store.status = "completed"
        /\ store.generation_progress = 100
        /\ store.seo_title =
              FallbackValue("seo", ToProductInfo(scraped_product), <<>>).v["title"]
        /\ store.seo_keywords =
              FallbackValue("keywords", ToProductInfo(scraped_product), <<>>).v
        /\ Len(store.enhanced_images) = 2
        /\ \A i \in 1..2 : store.enhanced_images[i].enhancement_type = "fallback_original"

---------------------------------------------------------------------------
(* Properties of generate_complete_content (SpecContent)                   *)

AllSettled == \A i \in Requests : tasks[i].settled

\* The fields of a GeneratedContent that request i feeds.
RequestFields(c, i) ==
    CASE i = 1 -> <<c.product_title, c.product_description, c.product_benefits>>
      [] i = 2 -> <<c.seo_title, c.seo_description>>
      [] i = 3 -> <<c.homepage_hero>>
      [] i = 4 -> <<c.about_page>>
      [] i = 5 -> <<c.faq_items>>
      [] OTHER -> <<c.keywords>>

\* The GeneratedContent of a call in which every response has the given kind.
ContentWhenAll(kind) ==
    BuildGeneratedContent(
        [i \in Requests |-> RunRequest(RequestNames[i], product_info, kind).value]).value

\* C4 as claimed: when exactly one request fails with a timeout or a
\* transport error, the call does not raise, the other five requests' fields
\* hold their generated values and the failed request's fields do not.
C4_OneFailureAbsorbed ==
    \A j \in Requests :
        ( /\ AllSettled
          /\ ClientRaises(tasks[j].kind)
          /\ \A i \in Requests \ {j} : tasks[i].kind = "json_expected" )
        =>  /\ call.state # "raised"
            /\ call.state = "returned" =>
                 /\ \A i \in Requests \ {j} :
                       RequestFields(call.value[1], i) =
                          RequestFields(ContentWhenAll("json_expected"), i)
                 /\ RequestFields(call.value[1], j) #
                       RequestFields(ContentWhenAll("json_expected"), j)

ContentFields ==
    {"product_title", "product_description", "product_benefits", "seo_title",
     "seo_description", "homepage_hero", "about_page", "faq_items", "keywords"}

\* C5 as claimed: when all six requests fail, the call still returns a
\* GeneratedContent with all nine fields.
C5_FallbackComplete ==
    (AllSettled /\ \A i \in Requests : ClientRaises(tasks[i].kind))
    =>  /\ call.state # "raised"
        /\ call.state = "returned" => ContentFields \subseteq DOMAIN call.value[1]

\* C6 as claimed: a response that is not JSON, or is JSON of another shape,
\* makes the field fall back and does not make the call raise.
C6_MalformedRecoverable ==
    (AllSettled /\ \A i \in Requests : ~ClientRaises(tasks[i].kind))
    =>  /\ call.state # "raised"
        /\ call.state = "returned" =>
             \A i \in Requests \ {4} :
                 tasks[i].kind # "json_expected" =>
                    RequestFields(call.value[1], i) =
                       RequestFields(ContentWhenAll("not_json"), i)

---------------------------------------------------------------------------
(* Properties of the image enhancer (SpecEnhance)                          *)

\* C8: enhance_product_images returns min(n, 5) results, the i-th for the
\* i-th input URL, whatever happened in the chains; no chain exists for an
\* image beyond the fifth.
C8_OneResultPerImage ==
    /\ batch.kind = "enhance_product_images" =>
          DOMAIN chains = 1..(IF Len(image_urls) < 5 THEN Len(image_urls) ELSE 5)
    /\ (batch.kind = "enhance_product_images" /\ batch.state = "returned") =>
          /\ Len(batch.value) = (IF Len(image_urls) < 5 THEN Len(image_urls) ELSE 5)
          /\ \A i \in DOMAIN batch.value : batch.value[i].original_url = image_urls[i]

\* Six images were given, five results returned, and among the chains one
\* could not download its image and one had a failed job.
C8_Witness ==
    /\ batch.kind = "enhance_product_images"
    /\ batch.state = "returned"
    /\ Len(image_urls) = 6
    /\ Len(batch.value) = 5
    /\ \E i \in DOMAIN chains : chains[i].env.download = "error"
    /\ \E i \in DOMAIN chains : chains[i].env.quality = "failed"

\* Every pass the call asked for ran to a result.
RequestedPassesSucceeded(env) ==
    /\ env.download = "ok"
    /\ flags.enhance_quality => PassSucceeds(env.quality)
    /\ flags.remove_background => PassSucceeds(env.background)
    /\ PassSucceeds(env.style)

\* C9 as claimed: a result is tagged full_enhancement only if every
\* requested pass succeeded, and fallback_original if any of them failed.
C9_TagReflectsPasses ==
    \A i \in DOMAIN chains :
        chains[i].settled =>
            /\ chains[i].result.enhancement_type = "full_enhancement" =>
                   RequestedPassesSucceeded(chains[i].env)
            /\ ~RequestedPassesSucceeded(chains[i].env) =>
                   chains[i].result.enhancement_type = "fallback_original"

\* C10 as claimed: with quality and background removal requested, when the
\* quality pass succeeds and the background pass times out, no style job is
\* submitted and the result is the quality-enhanced image tagged
\* fallback_original.
C10_PartialResultKept ==
    ( /\ batch.kind = "enhance_single_image"
      /\ flags.enhance_quality /\ flags.remove_background
      /\ chains[1].settled
      /\ chains[1].env.download = "ok"
      /\ PassSucceeds(chains[1].env.quality)
      /\ chains[1].env.background = "never_done" )
    =>  /\ \A k \in DOMAIN chains[1].submitted : chains[1].submitted[k].pass # "style"
        /\ chains[1].result.enhancement_type = "fallback_original"
        /\ chains[1].result.enhanced_url =
              _upload_enhanced_image(Transformed(OriginalImage(image_urls[1]), "quality"))

\* The chain of image i ended in a failure of its download or of a pass.
ChainFailed(i) == chains[i].settled /\ ~RequestedPassesSucceeded(chains[i].env)

\* What the chain of image j returns when it runs alone in its environment.
ResultAlone(j) ==
    enhance_single_image(image_urls[j], flags.style, flags.enhance_quality,
                         flags.remove_background, chains[j].env).value

\* C11: in enhance_product_images the failure of one image's chain never
\* raises out of the call and never changes another image's result: in
\* whatever order the chains settle, every other image's EnhancedImage is
\* the one its own chain produces from its own environment.
C11_ChainsIsolated ==
    batch.kind = "enhance_product_images" =>
        /\ batch.state # "raised"
        /\ \A j \in DOMAIN chains :
              (chains[j].settled /\ \E i \in DOMAIN chains \ {j} : ChainFailed(i)) =>
                  /\ ~chains[j].raised
                  /\ chains[j].result = ResultAlone(j)
                  /\ batch.state = "returned" =>
                        /\ Len(batch.value) = Len(chains)
                        /\ batch.value[j] = ResultAlone(j)

\* The first image could not be downloaded, a later one was enhanced in
\* full, and the call has returned both.
C11_Witness ==
    /\ batch.kind = "enhance_product_images"
    /\ batch.state = "returned"
    /\ Len(chains) >= 2
    /\ chains[1].env.download = "error"
    /\ batch.value[1].enhancement_type = "fallback_original"
    /\ RequestedPassesSucceeded(chains[2].env)
    /\ batch.value[2].enhancement_type = "full_enhancement"

\* C22 as claimed: within one image's chain, a pass that fails is the last
\* one to submit a job for the image, and the EnhancedImage of that chain is
\* the unmodified original.
C22_FailedPassAbortsChain ==
    \A i \in DOMAIN chains :
        chains[i].settled =>
            \A k \in DOMAIN chains[i].submitted :
                ~PassSucceeds(chains[i].env[chains[i].submitted[k].pass]) =>
                    /\ k = Len(chains[i].submitted)
                    /\ chains[i].result.enhanced_url = chains[i].result.original_url

\* The passes a call asks for, in the order the chain runs them.
RequestedPasses ==
    (IF flags.enhance_quality THEN <<"quality">> ELSE <<>>)
    \o (IF flags.remove_background THEN <<"background">> ELSE <<>>)
    \o <<"style">>

\* What a pass hands back to the chain for the image it was given.
PassOutput(submission, env) ==
    RunPass(submission.input, submission.pass, env[submission.pass]).value

\* C23: within one image's chain the passes run one after the other in the
\* order quality, background removal, style (those the call asked for): the
\* first pass that runs is given the downloaded original, every later pass is
\* given what the pass before it returned, and the uploaded result is what
\* the last pass returned.
C23_PassesInOrder ==
    \A i \in DOMAIN chains :
        (chains[i].settled /\ chains[i].env.download = "ok") =>
            LET sub == chains[i].submitted
            IN  /\ [k \in DOMAIN sub |-> sub[k].pass] = RequestedPasses
                /\ sub[1].input = OriginalImage(image_urls[i])
                /\ \A k \in 1..(Len(sub) - 1) :
                       sub[k + 1].input = PassOutput(sub[k], chains[i].env)
                /\ chains[i].result.enhanced_url =
                       _upload_enhanced_image(PassOutput(sub[Len(sub)], chains[i].env))

\* A chain ran all three passes, each on the output of the one before.
C23_Witness ==
    /\ batch.kind = "enhance_single_image"
    /\ chains[1].settled
    /\ Len(chains[1].submitted) = 3
    /\ chains[1].submitted[3].input.passes = <<"quality", "background">>
    /\ chains[1].result.enhanced_url.passes = <<"quality", "background", "style">>

\* C26: an EnhancedImage that enhance_single_image returns is tagged
\* fallback_original exactly when its enhanced_url is its original_url, and
\* every other one is tagged full_enhancement; the degraded result is a
\* returned value, in the single call and in the batch, and the call never
\* raises.
C26_FallbackIffOriginalUrl ==
    /\ batch.state # "raised"
    /\ \A i \in DOMAIN chains :
          chains[i].settled =>
              /\ ~chains[i].raised
              /\ chains[i].result.original_url = image_urls[i]
              /\ chains[i].result.enhancement_type \in {"fallback_original", "full_enhancement"}
              /\ chains[i].result.enhancement_type = "fallback_original"
                    <=> chains[i].result.enhanced_url = chains[i].result.original_url
    /\ batch.state = "returned" =>
          \A k \in DOMAIN batch.value :
              batch.value[k].enhancement_type = "fallback_original"
                 <=> batch.value[k].enhanced_url = batch.value[k].original_url

\* A direct call could not download its image and returned the original.
C26_Witness ==
    /\ batch.kind = "enhance_single_image"
    /\ batch.state = "returned"
    /\ chains[1].env.download = "error"
    /\ batch.value[1].enhancement_type = "fallback_original"
    /\ batch.value[1].enhanced_url = image_urls[1]

---------------------------------------------------------------------------
(* Properties of _poll_generation_completion (SpecPoll, SpecPollLive)      *)

PollEnded == poll.pc \in {"returned", "raised"}

\* C24: a call of _poll_generation_completion issues at most 30 status
\* requests; when 30 responses have carried neither COMPLETE nor FAILED the
\* call issues no further request and raises the timeout failure, and the
\* timeout failure is raised in no other case; whatever the statuses, the
\* call ends.
C24_PollBounded ==
    /\ []( /\ poll.requests <= 30
           /\ (poll.pc = "raised" /\ poll.result.exc = "Generation timeout") =>
                 /\ poll.requests = 30
                 /\ poll.status \notin {"COMPLETE", "FAILED", "none"} )
    /\ [][(poll.pc = "loop" /\ poll.requests = 30) =>
             /\ poll'.pc = "raised"
             /\ poll'.result.exc = "Generation timeout"
             /\ poll'.requests = 30
         ]_vars
    /\ <>PollEnded

\* Thirty polls saw no final status and the call raised the timeout.
C24_Witness ==
    /\ poll.pc = "raised"
    /\ poll.result.exc = "Generation timeout"
    /\ poll.requests = 30
    /\ poll.attempt = 30
    /\ poll.status = "PENDING"

\* The step is a status request that got a response.
Polled == poll'.requests = poll.requests + 1 /\ poll'.status # "none"

\* C25: a response with status COMPLETE and an output ends the call with
\* the first output's URL; COMPLETE without output, and FAILED, each end it
\* at once as a failure; any other status is followed by one more status
\* request when fewer than 30 have been made; a call that has ended makes no
\* further request.
C25_PollOutcomes ==
    /\ [][Polled =>
             /\ (poll'.status = "COMPLETE" /\ poll'.generated_images # <<>>) =>
                   /\ poll'.pc = "returned"
                   /\ poll'.result.value = poll'.generated_images[1].url
             /\ (poll'.status = "COMPLETE" /\ poll'.generated_images = <<>>) =>
                   /\ poll'.pc = "raised"
                   /\ poll'.result.exc = "No images generated"
             /\ poll'.status = "FAILED" =>
                   /\ poll'.pc = "raised"
                   /\ poll'.result.exc = "Image generation failed"
             /\ poll'.status \notin {"COMPLETE", "FAILED"} =>
                   /\ poll'.pc = "sleeping"
                   /\ poll'.attempt = poll.attempt
         ]_vars
    /\ [][poll.pc = "sleeping" =>
             /\ poll'.pc = "loop"
             /\ poll'.attempt = poll.attempt + 1
             /\ poll'.requests = poll.requests
         ]_vars
    /\ [][(poll.pc = "loop" /\ poll.requests < 30) =>
             poll'.requests = poll.requests + 1
         ]_vars
    /\ [][PollEnded => poll' = poll]_vars

\* After two polls of a running job, the third response was COMPLETE with two
\* outputs and the call returned the first.
C25_Witness ==
    /\ poll.pc = "returned"
    /\ poll.requests = 3
    /\ poll.status = "COMPLETE"
    /\ Len(poll.generated_images) = 2
    /\ poll.result.value = GeneratedUrl(1)

---------------------------------------------------------------------------
(* Properties of _build_store_structure (SpecAssemble)                     *)

\* The call of _build_store_structure has returned its document.
Assembled == pc = "checkpoint_90" /\ store_data # EmptyDict

\* C27 as claimed: the featured image of the homepage and the og_image of
\* the SEO block are both the first enhanced image's URL when there is an
\* enhanced image, else the first original image's URL when the product has
\* images, else null.
C27_SameHeroRule ==
    Assembled =>
        LET hero == IF enhanced_images # <<>> THEN enhanced_images[1].enhanced_url
                    ELSE IF scraped_product.images # <<>> THEN scraped_product.images[1]
                    ELSE NoUrl
        IN  /\ store_data.homepage.featured_product.image = hero
            /\ store_data.seo.og_image = hero

\* C28: the theme block carries the store's theme style; its colors are
\* the store's brand colors when the store has any and otherwise the default
\* colors of the style; its fonts and layout are those of the style whatever
\* the brand colors; and a style that is in no table (professional) gets the
\* colors, fonts and layout of modern.
C28_ThemeBlock ==
    Assembled =>
        LET theme == store_data.theme
            style == store.theme_style
            table == IF style \in {"modern", "luxury", "minimal"} THEN style ELSE "modern"
        IN  /\ theme.style = style
            /\ store.brand_colors # EmptyDict => theme.colors = store.brand_colors
            /\ store.brand_colors = EmptyDict =>
                  /\ theme.colors = _generate_default_colors(table)
                  /\ theme.colors.primary =
                        (CASE table = "modern"  -> "#3b82f6"
                           [] table = "luxury"  -> "#1f2937"
                           [] table = "minimal" -> "#000000")
            /\ theme.fonts = _get_theme_fonts(table)
            /\ theme.fonts.primary =
                  (CASE table = "modern"  -> "Inter, sans-serif"
                     [] table = "luxury"  -> "Playfair Display, serif"
                     [] table = "minimal" -> "Helvetica Neue, sans-serif")
            /\ theme.layout = _get_theme_layout(table)
            /\ theme.layout.product_layout =
                  (CASE table = "modern"  -> "grid"
                     [] table = "luxury"  -> "showcase"
                     [] table = "minimal" -> "minimal")

\* A professional store without brand colors got the theme block of modern.
C28_Witness ==
    /\ Assembled
    /\ store.theme_style = "professional"
    /\ store.brand_colors = EmptyDict
    /\ store_data.theme.style = "professional"
    /\ store_data.theme.colors.primary = "#3b82f6"
    /\ store_data.theme.fonts.primary = "Inter, sans-serif"
    /\ store_data.theme.layout.header_style = "clean"

---------------------------------------------------------------------------
(* Further properties of generate_complete_store (Spec)                    *)

\* A document without its generated_at stamp.
WithoutGeneratedAt(document) == [document EXCEPT !.generated_at = "generated_at"]

\* A further call of _build_store_structure on the run's inputs and the
\* Store row as it is now.
BuiltAgain ==
    _build_store_structure(store, scraped_product, generated_content, enhanced_images)

CommittedAt ==
    [scrape |-> <<10>>, content |-> <<10, 25>>, enhance |-> <<10, 25, 50>>,
     build |-> <<10, 25, 50, 75>>, finalize |-> <<10, 25, 50, 75, 90>>]

\* The positions of a run after its scrape has returned.
AfterScrape ==
    {"checkpoint_25", "content", "checkpoint_50", "enhance", "checkpoint_75",
     "build", "checkpoint_90", "finalize", "returned"}

\* C16: the stages of a run execute in the order scrape, content, images,
\* assembly, persistence: a stage is entered only with its own checkpoint
\* persisted and with the result of the stage before it, and the row takes
\* status completed with progress 100 only in the commit of step 6, which
\* stores the assembled document with it.
C16_StagesInOrder ==
    /\ []( /\ pc \in DOMAIN CommittedAt =>
                /\ progress_log = CommittedAt[pc]
                /\ store.generation_progress = Last(progress_log)
           /\ pc \in AfterScrape => scraped_product # NoProduct
           /\ pc \in {"checkpoint_10", "scrape"} => scraped_product = NoProduct
           /\ pc \in {"enhance", "build", "finalize"} => generated_content # NoContent
           /\ pc \in {"checkpoint_10", "scrape", "checkpoint_25", "content"} =>
                generated_content = NoContent
           /\ pc = "finalize" => store_data # EmptyDict
           /\ pc \in {"checkpoint_10", "scrape", "checkpoint_25", "content",
                      "checkpoint_50", "enhance", "checkpoint_75", "build"} =>
                store_data = EmptyDict )
    /\ [][( /\ store'.status = "completed" /\ store'.generation_progress = 100
            /\ ~(store.status = "completed" /\ store.generation_progress = 100) )
          => /\ pc = "finalize" /\ pc' = "returned"
             /\ store'.ai_generated_content = store_data
             /\ store'.enhanced_images = enhanced_images
             /\ store_data # EmptyDict
         ]_vars

\* A first run stands before step 6 with all five checkpoints committed and
\* the row still generating.
C16_Witness ==
    /\ pc = "finalize"
    /\ progress_log = <<10, 25, 50, 75, 90>>
    /\ store.status = "generating"
    /\ store.ai_generated_content = EmptyDict
    /\ store_data # EmptyDict

\* The run ended because the commit of step 6 raised.
FinalCommitFailed ==
    /\ pc = "raised"
    /\ exc = CommitError
    /\ progress_log = <<10, 25, 50, 75, 90>>

\* C17 as claimed: when the commit that stores the final result fails, the
\* run ends with the persisted status error and a message describing the
\* failure; the row is not left generating and was never completed.
C17_FinalCommitFailureMarked ==
    (FinalCommitFailed /\ store_at_begin.status = "generating") =>
        /\ store.status = "error"
        /\ store.error_message = CommitError

\* The scraped product of the current run has no images.
NoImages == scraped_product # NoProduct /\ scraped_product.images = <<>>

\* C18: when the scraped product has no images, no enhancement chain is
\* run and the enhanced-image list is empty; the image stage never makes the
\* run fail, and the run that returns has gone through 75 and 90 to status
\* completed at 100 with an empty enhanced-image list.
C18_NoImagesSkipsEnhancement ==
    NoImages =>
        /\ enhanced_images = <<>>
        /\ run_env.chain_envs = <<>>
        /\ (pc = "raised" /\ Len(progress_log) >= 3) => exc = CommitError
        /\ pc = "returned" =>
              /\ progress_log = <<10, 25, 50, 75, 90, 100>>
              /\ store.status = "completed"
              /\ store.generation_progress = 100
              /\ store.enhanced_images = <<>>
              /\ store.ai_generated_content.product.images.enhanced = <<>>

\* A run on a product without images has returned with the store completed.
C18_Witness ==
    /\ NoImages
    /\ pc = "returned"
    /\ store.status = "completed"
    /\ store.enhanced_images = <<>>
    /\ progress_log = <<10, 25, 50, 75, 90, 100>>

\* C19 as claimed: generate_complete_content returns or raises only after
\* all six requests have settled; no request is still in flight when the
\* call ends.
C19_WaitAllBarrier ==
    call.state \in {"returned", "raised"} => AllSettled

\* Another text the service can answer with that is not JSON.
OtherText == <<"Sorry, I cannot help with that.">>

\* C20 as claimed: a field that falls back takes a value computed from the
\* ProductInfo alone: the value a request fell back to is the value it would
\* have fallen back to had the service answered with any other text.
C20_FallbackFromProductOnly ==
    \A i \in Requests \ {4} :
        (tasks[i].settled /\ tasks[i].kind = "not_json") =>
            tasks[i].value = FallbackValue(RequestNames[i], product_info, OtherText)

\* Request j ran into the client's timeout and the other five got the
\* response they asked for.
OnlyTimeout(j) ==
    /\ AllSettled
    /\ tasks[j].kind = "timeout"
    /\ \A i \in Requests \ {j} : tasks[i].kind = "json_expected"

\* C21 as claimed: when one request gets no response until its timeout, the
\* request counts as failed, its field falls back, and the call returns its
\* GeneratedContent; the call does not end with the timeout as its exception.
C21_TimeoutFallsBack ==
    \A j \in Requests :
        OnlyTimeout(j) =>
            /\ call.state # "raised"
            /\ call.exc # "APITimeoutError"
            /\ call.state = "returned" =>
                  ContentFields \subseteq DOMAIN call.value[1]

\* The current run found a row that already holds a generated document.
Rerun == pc # "queued" /\ store_at_begin.ai_generated_content # EmptyDict

\* C32: a run on a store that already holds generated content starts with
\* no product, content or images of its own, commits the checkpoints 10, 25,
\* 50, 75, 90 in that order, and, when it returns, has replaced the document,
\* the enhanced images and the SEO fields with what it scraped, generated and
\* enhanced itself: the stored document is the one a new store of the same
\* name and theme would get from this run's results.
C32_RerunFromStageOne ==
    Rerun =>
        /\ pc = "checkpoint_10" =>
              /\ scraped_product = NoProduct
              /\ generated_content = NoContent
              /\ enhanced_images = <<>>
              /\ store_data = EmptyDict
              /\ progress_log = <<>>
        /\ \E n \in 0..6 : progress_log = SubSeq(<<10, 25, 50, 75, 90, 100>>, 1, n)
        /\ pc = "returned" =>
              /\ progress_log = <<10, 25, 50, 75, 90, 100>>
              /\ store.ai_generated_content =
                    _build_store_structure(NewStore(store.theme_style, store.brand_colors),
                                           scraped_product, generated_content, enhanced_images)
              /\ store.enhanced_images = enhanced_images
              /\ store.seo_title = generated_content.seo_title
              /\ store.seo_description = generated_content.seo_description
              /\ store.seo_keywords = generated_content.keywords

\* A second run on a store completed with two images scraped a product
\* without images and returned: the row has the new document and no image.
C32_Witness ==
    /\ Rerun
    /\ pc = "returned"
    /\ store_at_begin.status = "completed"
    /\ Len(store_at_begin.enhanced_images) = 2
    /\ store.enhanced_images = <<>>
    /\ store.ai_generated_content # store_at_begin.ai_generated_content
    /\ store.status = "completed"

\* C34: whenever the persisted status is completed, the progress is 100,
\* error_message is null (no progress text, no error text) and the row holds
\* an assembled document, which is the one of the run that has just returned.
C34_CompletedIsClean ==
    store.status = "completed" =>
        /\ store.generation_progress = 100
        /\ store.error_message = None
        /\ store.ai_generated_content # EmptyDict
        /\ pc = "returned" => store.ai_generated_content = store_data

\* C35: after a successful run the SEO columns of the row equal the seo
\* block of the stored document, and the enhanced_url values of the row's
\* enhanced_images are the document's product.images.enhanced, in order.
C35_MirrorsAgree ==
    (pc = "returned" /\ store.status = "completed") =>
        LET document == store.ai_generated_content
        IN  /\ store.seo_title = document.seo.title
            /\ store.seo_description = document.seo.description
            /\ store.seo_keywords = document.seo.keywords
            /\ [i \in 1..Len(store.enhanced_images) |->
                    store.enhanced_images[i].enhanced_url]
                  = document.product.images.enhanced

\* A run with two images has returned and the row mirrors its document.
C35_Witness ==
    /\ pc = "returned"
    /\ store.status = "completed"
    /\ Len(store.enhanced_images) = 2
    /\ Len(store.ai_generated_content.product.images.enhanced) = 2
    /\ store.seo_title = store.ai_generated_content.seo.title
    /\ store.seo_keywords # <<>>

\* C36: in the document a run assembles, the featured image of the homepage
\* equals seo.og_image: both are the first enhanced image's URL when the
\* scraped product has an image and both are null when it has none; the
\* enhanced list handed to the assembler is empty only when the product has
\* no images.
C36_FeaturedIsOgImage ==
    store_data # EmptyDict =>
        LET image == store_data.homepage.featured_product.image
        IN  /\ image = store_data.seo.og_image
            /\ (enhanced_images = <<>>) <=> (scraped_product.images = <<>>)
            /\ scraped_product.images # <<>> => image = enhanced_images[1].enhanced_url
            /\ scraped_product.images = <<>> => image = NoUrl

\* A document was assembled for a product with two images: its featured
\* image and og_image are the first enhanced URL.
C36_Witness ==
    /\ store_data # EmptyDict
    /\ Len(scraped_product.images) = 2
    /\ store_data.seo.og_image = enhanced_images[1].enhanced_url
    /\ store_data.homepage.featured_product.image = store_data.seo.og_image
    /\ store_data.seo.og_image # NoUrl

---------------------------------------------------------------------------
(* Properties of publishing (SpecPublish)                                  *)

\* C12: a publish request for a store whose status is not completed is
\* rejected: the request ends as rejected without a platform call, the Store
\* row stays as it is, and a rejected request never does anything later.
C12_PublishGated ==
    [][\A r \in PublishRequests :
          /\ ( /\ publish_tasks[r].pc = "none"
               /\ publish_tasks'[r] # publish_tasks[r]
               /\ store.status # "completed" )
             => /\ publish_tasks'[r] = [NoTask EXCEPT !.pc = "rejected"]
                /\ store' = store
          /\ publish_tasks[r].pc = "rejected" => publish_tasks'[r] = publish_tasks[r]
      ]_vars

\* The first request published the store; the second, made afterwards, was
\* rejected and made no call.
C12_Witness ==
    /\ publish_tasks["first"].pc = "returned"
    /\ publish_tasks["second"].pc = "rejected"
    /\ publish_tasks["second"].calls = <<>>
    /\ store.status = "published"

\* C13: a published store was completed earlier (its run committed the
\* final result, and a publish attempt read the row with status completed)
\* and holds the document the run assembled.
C13_PublishedWasCompleted ==
    store.status = "published" =>
        /\ pc = "returned"
        /\ progress_log # <<>> /\ Last(progress_log) = 100
        /\ \E r \in PublishRequests :
              /\ publish_tasks[r].snapshot # <<>>
              /\ publish_tasks[r].snapshot[1].status = "completed"
        /\ store.ai_generated_content # EmptyDict
        /\ store.ai_generated_content = store_data
        /\ {"product", "homepage", "pages", "seo", "theme"}
              \subseteq DOMAIN store.ai_generated_content

\* A store has been published with its document and the shop's URL.
C13_Witness ==
    /\ store.status = "published"
    /\ store.shopify_store_url = <<"https://", TheUser.shopify_shop_domain>>
    /\ store.ai_generated_content # EmptyDict
    /\ \E r \in PublishRequests : publish_tasks[r].pc = "returned"

\* A publish attempt ended because create_product or create_page raised.
PlatformFailure(task) == task.pc = "raised" /\ task.exc = PlatformError

\* C29: a publish attempt that succeeds has called create_product once,
\* first, and then create_page five times, for the about, faq, contact,
\* shipping and privacy pages; the row takes status published and the shop's
\* URL in the step in which the attempt's sixth call returns, never while
\* one of the attempt's calls is outstanding or still to be made.
C29_PublishCallsThenStatus ==
    /\ [](\A r \in PublishRequests :
             LET task == publish_tasks[r]
             IN  /\ task.calls # <<>> =>
                       /\ Len(task.calls) <= 6
                       /\ task.calls[1].op = "create_product"
                       /\ \A k \in 2..Len(task.calls) : task.calls[k].op = "create_page"
                 /\ task.pc = "returned" =>
                       /\ Len(task.calls) = 6
                       /\ [k \in 1..5 |-> task.calls[k + 1].data.title] =
                             <<"About Us", "Frequently Asked Questions", "Contact Us",
                               "Shipping & Returns", "Privacy Policy">>
                       /\ store.status = "published"
                       /\ store.shopify_store_url = <<"https://", TheUser.shopify_shop_domain>>)
    /\ [](store.status = "published" =>
             \E r \in PublishRequests : publish_tasks[r].pc = "returned")
    /\ [][(store'.status = "published" /\ store.status # "published") =>
             \E r \in PublishRequests :
                 /\ publish_tasks[r].pc = "calling"
                 /\ Len(publish_tasks[r].calls) = 6
                 /\ publish_tasks'[r].pc = "returned"
                 /\ publish_tasks'[r].calls = publish_tasks[r].calls
         ]_vars

\* The only attempt made its six calls, the privacy page last, and the
\* store is published.
C29_Witness ==
    /\ publish_tasks["first"].pc = "returned"
    /\ Len(publish_tasks["first"].calls) = 6
    /\ publish_tasks["first"].calls[1].op = "create_product"
    /\ publish_tasks["first"].calls[6].data.title = "Privacy Policy"
    /\ publish_tasks["second"].pc = "none"
    /\ store.status = "published"

\* The attempt got its product created and then failed creating a page.
FailedAfterProduct(task) == PlatformFailure(task) /\ Len(task.calls) >= 2

\* C30: nothing about the remote product is recorded: when an attempt has
\* created the product and failed on a page, the store stays completed (until
\* another attempt publishes it), a later publish request is accepted, and
\* every attempt that starts calls create_product first, with the payload
\* built from the row alone, so a later attempt creates the same product
\* again.
C30_ProductCreatedPerAttempt ==
    /\ [](\A r \in PublishRequests :
             /\ ( /\ FailedAfterProduct(publish_tasks[r])
                  /\ \A q \in PublishRequests : publish_tasks[q].pc # "returned" )
                => store.status = "completed"
             /\ \A q \in PublishRequests \ {r} :
                  ( /\ FailedAfterProduct(publish_tasks[r])
                    /\ publish_tasks[q].calls # <<>> )
                  => /\ publish_tasks[q].calls[1].op = "create_product"
                     /\ publish_tasks[q].calls[1] = publish_tasks[r].calls[1])
    /\ [](FailedAfterProduct(publish_tasks["first"]) =>
             publish_tasks["second"].pc # "rejected")
    /\ [][\A r \in PublishRequests :
             (publish_tasks[r].pc = "scheduled" /\ publish_tasks'[r].pc = "calling")
             => publish_tasks'[r].calls =
                   <<PlatformCall("create_product", ProductPayload(store, TheUser))>>
         ]_vars

\* The first attempt failed on its second page; the second attempt, made
\* afterwards, has asked for the product again.
C30_Witness ==
    /\ FailedAfterProduct(publish_tasks["first"])
    /\ Len(publish_tasks["first"].calls) = 3
    /\ publish_tasks["second"].pc = "calling"
    /\ Len(publish_tasks["second"].calls) = 1
    /\ publish_tasks["second"].calls[1].op = "create_product"
    /\ store.status = "completed"

PublishStep == publish_tasks' # publish_tasks

StatusSteps ==
    {<<"generating", "completed">>, <<"generating", "error">>,
     <<"completed", "published">>}

\* C37: the status of a store changes only from generating to completed,
\* from generating to error and from completed to published; error and
\* published are final, and no step leads back to generating.
C37_StatusLifecycle ==
    [][store'.status # store.status => <<store.status, store'.status>> \in StatusSteps]_vars

\* The store went from generating over completed to published, and a
\* second publish request found it published.
C37_Witness ==
    /\ store_at_begin.status = "generating"
    /\ pc = "returned"
    /\ store.status = "published"
    /\ publish_tasks["first"].pc = "returned"
    /\ publish_tasks["second"].pc = "rejected"

\* C38: at most one publish attempt of a store makes platform calls while
\* the store is completed: two requests never both pass the gate and both
\* call create_product.
C38_OnePublishAttempt ==
    ~ \A r \in PublishRequests :
          /\ publish_tasks[r].calls # <<>>
          /\ publish_tasks[r].snapshot[1].status = "completed"

\* C40: the product_type an attempt sends to create_product is the category
\* the document records under its product block.
C40_ProductTypeIsCategory ==
    \A r \in PublishRequests :
        publish_tasks[r].calls # <<>> =>
            publish_tasks[r].calls[1].data.product_type
              = publish_tasks[r].snapshot[1].ai_generated_content.product.category

---------------------------------------------------------------------------
(* Properties of generate_store (SpecGenerate, SpecQuota)                  *)

\* The background tasks added for store id.
RunsOf(id) == {t \in DOMAIN runs : runs[t].store_id = id}

\* C33: every store row has exactly one generation run, the one its own
\* request added, no two runs work on the same store at the same time, and
\* only that run has written to the row.
C33_OneRunPerStore ==
    /\ \A id \in DOMAIN stores :
          /\ Cardinality(RunsOf(id)) = 1
          /\ stores[id].written_by \subseteq {runs[t].task_id : t \in RunsOf(id)}
          /\ Cardinality({t \in RunsOf(id) : runs[t].pc = "running"}) <= 1
    /\ \A t \in DOMAIN runs : runs[t].store_id \in DOMAIN stores

\* Two runs are under way at once, each on its own store.
C33_Witness ==
    /\ Len(runs) >= 2
    /\ runs[1].pc = "running"
    /\ runs[2].pc = "running"
    /\ stores[runs[1].store_id].written_by = {1}
    /\ stores[runs[2].store_id].written_by = {2}

\* C39: between two resets of the counter a user never has more accepted
\* generate requests than the monthly limit the handler reads.
C39_WithinMonthlyLimit == quota.accepted <= get_current_user.monthly_limit

====
